---- MODULE Spec2Model ----
(***************************************************************************)
(* ActionPacks CLI (packages/cli/src/index.ts) and its demo host           *)
(* (scripts/host-demo.mjs): the policy decision made by `ap dry-run`,      *)
(* `ap exec` and the host, the rules `ap policies suggest` writes, and the *)
(* commands that write the stack directory (init, add, bump, remove).      *)
(*                                                                         *)
(* The state is what the commands read and write in the stack directory    *)
(* (stack.yaml, stack.lock.json, policies.yaml) and the outcome of the     *)
(* process that ran last (what it printed, how it ended).  Every command   *)
(* is one action; its inputs (the options and the files of the pack) are   *)
(* drawn from small sets.  Specifications:                                 *)
(*   Spec          dry-run and exec under hand-written policies            *)
(*   DecidersSpec  dry-run, exec and the demo host, nested payloads        *)
(*   SuggestSpec   init, add, bump and policies suggest over a catalog     *)
(*   HostedSpec    a host with a rolling counter that calls exec           *)
(*   ScopedSpec    dry-run and exec over pack ids that begin with '@'      *)
(*   StackSpec     init, add, bump and remove of listed packs              *)
(*                                                                         *)
(* Strings the code takes apart (pack ids) are sequences of tokens, one    *)
(* token per character class: "a@1" is <<"a", "@", "1">>.  An optional     *)
(* value (a field that may be absent, a file that may be missing, NaN) is  *)
(* a sequence of length at most one: <<>> is absent, <<v>> is present.     *)
(***************************************************************************)
EXTENDS Integers, Sequences, FiniteSets, TLC

VARIABLES
  stack,     \* stack.yaml: <<>> when missing, else <<list of pack ids>>
  lock,      \* stack.lock.json: <<>> when missing, else <<list of locked pack ids>>
  policies,  \* policies.yaml: <<>> when missing, else <<list of rules>>
  out,       \* the CLI process that ran last: its inputs, output and exit
  host       \* an embedding host that serves requests by asking for decisions

vars == <<stack, lock, policies, out, host>>

-----------------------------------------------------------------------------
(* Bounds of the model *)

\* --callsSoFar takes the values NaN, -1 and 0..MaxCallsSoFar, and the two
\* values around the default limit.
MaxCallsSoFar == 2

\* rateLimit.maxCalls of a hand-written rule ranges over -1..MaxLimit.
MaxLimit == 2

\* policies.yaml holds up to MaxRules rules of the plain shape.
MaxRules == 2

\* An embedding host serves up to MaxRequests requests at a time.
MaxRequests == 2

-----------------------------------------------------------------------------
(* Values *)

None == <<>>
Some(v) == <<v>>
IsSome(o) == o # <<>>
Get(o) == o[1]

Max(a, b) == IF a >= b THEN a ELSE b

SeqToSet(s) == {s[i] : i \in 1..Len(s)}
Contains(s, e) == \E i \in 1..Len(s) : s[i] = e

\* Pack ids, as token sequences.
A1 == <<"a", "@", "1">>
A2 == <<"a", "@", "2">>
B1 == <<"b", "@", "1">>
PackIds == {A1, A2, B1}

ToolNames == {"t", "u"}

\* The packs of the lockfile and, per pack.yaml, the tools of each pack.
LockedPacks == <<A1, B1>>
PackTools(packId) == {"t"}

\* Top-level payload fields and JSON types.
EntryOrder ==
  << [key |-> "title", type |-> "string"],
     [key |-> "title", type |-> "number"],
     [key |-> "extra", type |-> "string"] >>

\* A payload is a JSON object: its entries in insertion order, keys distinct.
Payloads ==
  { SelectSeq(EntryOrder, LAMBDA e : e \in S) :
      S \in { T \in SUBSET SeqToSet(EntryOrder) :
                \A e1, e2 \in T : e1.key = e2.key => e1 = e2 } }

\* The schema document of the tool (schemas/<tool>.json of the pack).
ToolSchema ==
  [ required   |-> <<"title">>,
    properties |-> << [key |-> "title", type |-> "string"],
                      [key |-> "extra", type |-> "string"] >> ]

\* What is found at the tool's schema path.
\*   "missing"      no file                        (schema stays null)
\*   "unparseable"  a file that is not JSON        (warning, schema stays null)
\*   "uncompilable" JSON that is no valid schema   (ajv.compile throws)
\*   "ok"           ToolSchema
SchemaFiles == {"missing", "unparseable", "uncompilable", "ok"}

-----------------------------------------------------------------------------
(* Policies (type Policies, index.ts 36-47).  Text that is printed (a       *)
(* confirm message, an issue) is a sequence of tokens; <<>> is ''.         *)

ConfirmFields ==
  { None,
    Some([required |-> FALSE, message |-> None]),
    Some([required |-> TRUE,  message |-> None]),
    Some([required |-> TRUE,  message |-> Some(<<>>)]),
    Some([required |-> TRUE,  message |-> Some(<<"Sure?">>)]) }

AllowlistFields == { None, Some(<<>>), Some(<<"title">>) }

RateLimitFields ==
  {None} \cup
  { Some([maxCalls |-> m, windowSec |-> w]) : m \in -1..MaxLimit, w \in {0, 60} }

\* Every shape of rule for tool "t", for one-rule policies.
AnyRules ==
  [ pack : PackIds, tool : {"t"}, confirm : ConfirmFields,
    allowlist : AllowlistFields, rateLimit : RateLimitFields ]

\* The plain shapes, as `policies suggest` writes them, for longer lists:
\* rules of every pack for tool "t", and of a@1 for tool "u".
PlainRules ==
  { r \in [ pack : PackIds, tool : ToolNames,
            confirm : { Some([required |-> FALSE, message |-> None]),
                        Some([required |-> TRUE,  message |-> Some(<<"Sure?">>)]) },
            allowlist : { Some(<<>>) },
            rateLimit : { Some([maxCalls |-> 1, windowSec |-> 60]) } ] :
      r.tool = "u" => r.pack = A1 }

SeqsUpTo(S, n) == UNION { [1..k -> S] : k \in 0..n }

PolicyFiles ==
  {None} \cup
  { Some(rs) : rs \in SeqsUpTo(AnyRules, 1) \cup SeqsUpTo(PlainRules, MaxRules) }

-----------------------------------------------------------------------------
(* Helpers of the commands *)

\* s.split('@')[0]: the tokens before the first '@' (all of s when it has none).
RECURSIVE SplitFirst(_)
SplitFirst(s) ==
  IF s = <<>> \/ Head(s) = "@" THEN <<>> ELSE <<Head(s)>> \o SplitFirst(Tail(s))

\* s.lastIndexOf('@'), counting from 0; -1 when s has none.
LastIndexOfAt(s) ==
  IF \E i \in 1..Len(s) : s[i] = "@"
    THEN (CHOOSE i \in 1..Len(s) : s[i] = "@" /\ \A j \in (i + 1)..Len(s) : s[j] # "@") - 1
    ELSE -1

\* parsePackId(packId).name
PackName(packId) ==
  LET at == LastIndexOfAt(packId)
  IN  IF at <= 0 THEN packId ELSE SubSeq(packId, 1, at)

\* s.startsWith(p)
StartsWith(s, p) == Len(p) <= Len(s) /\ SubSeq(s, 1, Len(p)) = p

\* The first operand of the rule lookup: the rule of this very pack id.
ExactMatch(r, packId, toolName) == r.pack = packId /\ r.tool = toolName

\* The second operand: a rule whose pack starts with "<name>@".
PrefixMatch(r, packId, toolName) ==
  StartsWith(r.pack, SplitFirst(packId) \o <<"@">>) /\ r.tool = toolName

\* The least element of a set of indices, 0 for the empty set: what
\* Array.prototype.find returns (0 for undefined) when the set holds the
\* indices of the elements that pass its test.
First(S) == IF S = {} THEN 0 ELSE CHOOSE i \in S : \A j \in S : i <= j

\* pol.rules.find(exact)
FindExact(rules, packId, toolName) ==
  First({ i \in 1..Len(rules) : ExactMatch(rules[i], packId, toolName) })

\* pol.rules.find(prefix)
FindPrefix(rules, packId, toolName) ==
  First({ i \in 1..Len(rules) : PrefixMatch(rules[i], packId, toolName) })

\* A lookup in one pass: the first rule that matches either way.
FindRule_OnePass(rules, packId, toolName) ==
  First({ i \in 1..Len(rules) : \/ ExactMatch(rules[i], packId, toolName)
                                 \/ PrefixMatch(rules[i], packId, toolName) })

\* pol.rules.find(exact) || pol.rules.find(prefix): the index of the rule, 0 if none.
FindRule(rules, packId, toolName) ==
  IF FindExact(rules, packId, toolName) # 0
    THEN FindExact(rules, packId, toolName)
    ELSE FindPrefix(rules, packId, toolName)

\* Object.keys(payload)
ObjectKeys(payload) == [i \in 1..Len(payload) |-> payload[i].key]

\* The errors of `required`: one per required property the payload lacks.
RequiredErrors(schema, payload) ==
  LET lacking == SelectSeq(schema.required, LAMBDA k : ~Contains(ObjectKeys(payload), k))
  IN  [ i \in 1..Len(lacking) |->
          [ instancePath |-> <<>>,
            message |-> <<"must have required property", lacking[i]>> ] ]

\* The errors of `properties`: one per property present with another type.
TypeErrors(schema, payload) ==
  LET wrong == SelectSeq(schema.properties,
                         LAMBDA p : \E i \in 1..Len(payload) :
                                       payload[i].key = p.key /\ payload[i].type # p.type)
  IN  [ i \in 1..Len(wrong) |->
          [ instancePath |-> <<"/", wrong[i].key>>,
            message |-> <<"must be", wrong[i].type>> ] ]

\* validate(payload) of the compiled schema with allErrors: every error, each
\* with its instancePath.
ValidateErrors(schema, payload) ==
  RequiredErrors(schema, payload) \o TypeErrors(schema, payload)

\* issues.push(`schema: ${err.instancePath || '/'} ${err.message}`) per error.
SchemaIssues(schema, payload) ==
  LET errs == ValidateErrors(schema, payload)
  IN  [ i \in 1..Len(errs) |->
          <<"schema:">>
          \o (IF errs[i].instancePath = <<>> THEN <<"/">> ELSE errs[i].instancePath)
          \o errs[i].message ]

\* The keys of the object an entry holds (none when it holds no object).
InnerKeys(e) == IF "inner" \in DOMAIN e THEN e.inner ELSE <<>>

\* An enforcement that descends into nested objects: their keys are checked
\* against the list as well.
AllowlistIssues_Deep(allowlist, payload) ==
  IF Len(allowlist) > 0
    THEN LET bad == SelectSeq(ObjectKeys(payload), LAMBDA k : ~Contains(allowlist, k))
             deep == { i \in 1..Len(payload) :
                         \E j \in 1..Len(InnerKeys(payload[i])) :
                            ~Contains(allowlist, InnerKeys(payload[i])[j]) }
         IN  IF Len(bad) > 0 \/ deep # {}
               THEN << <<"allowlist: unexpected fields">> \o bad >>
               ELSE <<>>
    ELSE <<>>

\* The allowlist enforcement: at most one issue, naming the keys outside the list.
AllowlistIssues(allowlist, payload) ==
  IF Len(allowlist) > 0
    THEN LET bad == SelectSeq(ObjectKeys(payload), LAMBDA k : ~Contains(allowlist, k))
         IN  IF Len(bad) > 0
               THEN << <<"allowlist: unexpected fields">> \o bad >>
               ELSE <<>>
    ELSE <<>>

\* Math.max(0, parseInt(String(opts.callsSoFar), 10) || 0); <<>> is NaN.
ParseCallsSoFar(parsed) ==
  Max(0, IF parsed = None \/ Get(parsed) = 0 THEN 0 ELSE Get(parsed))

\* The comparison off by one: the limit itself already exceeds.
WouldExceed_AtLimit(callsSoFar, maxCalls) == callsSoFar + 1 >= maxCalls

\* The comparison without the call that is about to be made.
WouldExceed_NotCounting(callsSoFar, maxCalls) == callsSoFar > maxCalls

\* callsSoFar + 1 > rateLimit.maxCalls
WouldExceed(callsSoFar, maxCalls) == callsSoFar + 1 > maxCalls

\* let rateLimit = { maxCalls: 20, windowSec: 60 }
DefaultMaxCalls == 20
DefaultWindowSec == 60
DefaultRateLimit == [maxCalls |-> DefaultMaxCalls, windowSec |-> DefaultWindowSec]

\* `Proceed with ${toolName}?`
DefaultConfirmMessage(toolName) == <<"Proceed with ", toolName, "?">>

-----------------------------------------------------------------------------
(* The inputs of dry-run and exec: the options of the command line and the *)
(* file at the tool's schema path.                                         *)

\* parseInt of --callsSoFar: NaN, or an integer.
CallsSoFarArgs ==
  {None} \cup
  { Some(n) : n \in (-1..MaxCallsSoFar) \cup {DefaultMaxCalls - 1, DefaultMaxCalls} }

DefaultArgs ==
  [ packId |-> A1, toolName |-> "t", schemaFile |-> "ok",
    payload |-> Some(<<>>), assumeYes |-> FALSE, callsSoFar |-> Some(0) ]

\* Calls of a tool of a locked pack, with a payload.
CallArgs ==
  [ packId : SeqToSet(LockedPacks), toolName : {"t"}, schemaFile : SchemaFiles,
    payload : {Some(p) : p \in Payloads}, assumeYes : BOOLEAN,
    callsSoFar : CallsSoFarArgs ]

\* Calls the command refuses before it looks at the payload: a pack that is
\* not locked, a tool the pack does not have, no payload option.
RefusedArgs ==
  { [DefaultArgs EXCEPT !.packId = p] : p \in PackIds } \cup
  { [DefaultArgs EXCEPT !.toolName = t] : t \in ToolNames } \cup
  { [DefaultArgs EXCEPT !.payload = None] }

Args == CallArgs \cup RefusedArgs

-----------------------------------------------------------------------------
(* The outcome of a CLI process *)

NoPreview == None
NoLocals == None

\* cmd       the command that ran ("none": no process has run)
\* args      its inputs
\* stderr    the error it ended with: "" for none, "uncaught" for an exception
\*           that no handler caught, else the console.error message
\* warned    console.warn was called (schema parse failed)
\* preview   dry-run's JSON preview (status and policies), when printed
\* report    what was printed last: "issues", "rate", "confirm", "allowed"
\*           (dry-run succeeded), "adapter" or "simulated" (exec's result)
\* issues    the issues printed with report "issues"
\* rate      <<attempted, maxCalls, windowSec>> printed with report "rate"
\* confirm   the message printed with report "confirm"
\* exit      the exit code of the process
\* locals    the action's local values when it reached the decision
Outcome(cmd, args, stderr, warned, preview, report, issues, rate, confirm, exit, locals) ==
  [ cmd |-> cmd, args |-> args, stderr |-> stderr, warned |-> warned,
    preview |-> preview, report |-> report, issues |-> issues, rate |-> rate,
    confirm |-> confirm, exit |-> exit, locals |-> locals ]

Idle == Outcome("none", DefaultArgs, "", FALSE, NoPreview, "none", <<>>, <<>>, <<>>, 0, NoLocals)

\* console.error(message); process.exit(1)
Fail(cmd, args, message) ==
  Outcome(cmd, args, message, FALSE, NoPreview, "none", <<>>, <<>>, <<>>, 1, NoLocals)

\* An exception thrown in the action and caught nowhere: the process prints
\* the error and ends with exit code 1.
Uncaught(cmd, args, warned) ==
  Outcome(cmd, args, "uncaught", warned, NoPreview, "none", <<>>, <<>>, <<>>, 1, NoLocals)

\* The checks both commands make before the payload is validated; "" when
\* all pass.
Precheck(args) ==
  IF stack = None \/ lock = None THEN "Missing stack and/or lock"
  ELSE IF policies = None THEN "Missing policies.yaml"
  ELSE IF ~Contains(Get(lock), args.packId) THEN "Pack not present in lockfile"
  ELSE IF args.toolName \notin PackTools(args.packId) THEN "Tool not found"
  ELSE IF args.payload = None THEN "No payload given"
  ELSE ""

\* A compile that accepts every document.
CompileThrows_Never(schemaFile) == FALSE

\* ajv.compile(schema) throws on a schema document that is no valid schema.
CompileThrows(schemaFile) == schemaFile = "uncompilable"

\* `schema` after the load: null unless the file exists and parses.
SchemaLoaded(schemaFile) == schemaFile \in {"uncompilable", "ok"}

\* 1) Schema validation (if schema present)
ValidationIssues(schemaFile, payload) ==
  IF SchemaLoaded(schemaFile) THEN SchemaIssues(ToolSchema, payload) ELSE <<>>

-----------------------------------------------------------------------------
(* 2) Policies enforcement: what the commands take from the matched rule *)

\* !!rule.confirm?.required
RuleNeedsConfirm(rule) == IsSome(rule.confirm) /\ Get(rule.confirm).required

\* A confirm message that is always the default one.
RuleConfirmMessage_AlwaysDefault(rule, toolName) == DefaultConfirmMessage(toolName)

\* rule.confirm?.message || `Proceed with ${toolName}?`
RuleConfirmMessage(rule, toolName) ==
  IF /\ IsSome(rule.confirm)
     /\ IsSome(Get(rule.confirm).message)
     /\ Get(Get(rule.confirm).message) # <<>>
    THEN Get(Get(rule.confirm).message)
    ELSE DefaultConfirmMessage(toolName)

\* rule.allowlist || []
RuleAllowlist(rule) == IF IsSome(rule.allowlist) THEN Get(rule.allowlist) ELSE <<>>

\* if (rule.rateLimit) rateLimit = rule.rateLimit
RuleRateLimit(rule) == IF IsSome(rule.rateLimit) THEN Get(rule.rateLimit) ELSE DefaultRateLimit

\* Locals with the allowlist looked at only when the schema found nothing.
Locals_ShortCircuit(rule, needsConfirm, confirmMessage, allowlist, rateLimit, args) ==
  LET payload == Get(args.payload)
      callsSoFar == ParseCallsSoFar(args.callsSoFar)
      found == ValidationIssues(args.schemaFile, payload)
  IN  [ rule |-> rule,
        needsConfirm |-> needsConfirm,
        confirmMessage |-> confirmMessage,
        allowlist |-> allowlist,
        rateLimit |-> rateLimit,
        issues |-> IF found # <<>> THEN found ELSE AllowlistIssues(allowlist, payload),
        callsSoFar |-> callsSoFar,
        wouldExceed |-> WouldExceed(callsSoFar, rateLimit.maxCalls) ]

\* The locals of an action once the rule is looked up and the checks are made.
Locals(rule, needsConfirm, confirmMessage, allowlist, rateLimit, args) ==
  LET payload == Get(args.payload)
      callsSoFar == ParseCallsSoFar(args.callsSoFar)
  IN  [ rule |-> rule,
        needsConfirm |-> needsConfirm,
        confirmMessage |-> confirmMessage,
        allowlist |-> allowlist,
        rateLimit |-> rateLimit,
        issues |-> ValidationIssues(args.schemaFile, payload)
                     \o AllowlistIssues(allowlist, payload),
        callsSoFar |-> callsSoFar,
        wouldExceed |-> WouldExceed(callsSoFar, rateLimit.maxCalls) ]

\* DryRunLocals falling back to the first rule of the file when none matches.
DryRunLocals_FirstRule(rules, args) ==
  LET found == FindRule(rules, args.packId, args.toolName)
      idx == IF found = 0 /\ Len(rules) > 0 THEN 1 ELSE found
  IN  IF idx # 0
        THEN Locals(idx, RuleNeedsConfirm(rules[idx]),
                    RuleConfirmMessage(rules[idx], args.toolName),
                    RuleAllowlist(rules[idx]), RuleRateLimit(rules[idx]), args)
        ELSE Locals(0, FALSE, <<>>, <<>>, DefaultRateLimit, args)

\* dry-run: the rule's values, or without a rule no allowlist, no confirm and
\* the initial rateLimit.
DryRunLocals(rules, args) ==
  LET idx == FindRule(rules, args.packId, args.toolName)
  IN  IF idx # 0
        THEN Locals(idx, RuleNeedsConfirm(rules[idx]),
                    RuleConfirmMessage(rules[idx], args.toolName),
                    RuleAllowlist(rules[idx]), RuleRateLimit(rules[idx]), args)
        ELSE Locals(0, FALSE, <<>>, <<>>, DefaultRateLimit, args)

\* A status computed in the order of the exit path: rate limit before
\* confirmation.
DryRunStatus_RateFirst(l, assumeYes) ==
  IF Len(l.issues) > 0 THEN "blocked"
  ELSE IF l.wouldExceed THEN "rate-limited"
  ELSE IF l.needsConfirm /\ ~assumeYes THEN "needs-confirmation"
  ELSE "ok"

\* preview.status
DryRunStatus(l, assumeYes) ==
  IF Len(l.issues) > 0 THEN "blocked"
  ELSE IF l.needsConfirm /\ ~assumeYes THEN "needs-confirmation"
  ELSE IF l.wouldExceed THEN "rate-limited"
  ELSE "ok"

DryRunPreview(l, assumeYes) ==
  [ status |-> DryRunStatus(l, assumeYes),
    confirmRequired |-> l.needsConfirm,
    confirmMessage |-> l.confirmMessage,
    allowlist |-> l.allowlist,
    rateLimit |-> l.rateLimit,
    callsSoFar |-> l.callsSoFar,
    wouldExceed |-> l.wouldExceed ]

\* The rate message counting the calls already made, not the attempted one.
RateReport_CallsSoFar(l) == <<l.callsSoFar, l.rateLimit.maxCalls, l.rateLimit.windowSec>>

\* (${callsSoFar + 1}/${rateLimit.maxCalls} within ${rateLimit.windowSec}s)
RateReport(l) == <<l.callsSoFar + 1, l.rateLimit.maxCalls, l.rateLimit.windowSec>>

\* DryRunExit with the rate limit tested before the issues.
DryRunExit_RateFirst(args, warned, l) ==
  LET preview == Some(DryRunPreview(l, args.assumeYes))
  IN  IF l.wouldExceed
        THEN Outcome("dry-run", args, "", warned, preview, "rate", <<>>, RateReport(l), <<>>, 1, Some(l))
      ELSE IF Len(l.issues) > 0
        THEN Outcome("dry-run", args, "", warned, preview, "issues", l.issues, <<>>, <<>>, 1, Some(l))
      ELSE IF l.needsConfirm /\ ~args.assumeYes
        THEN Outcome("dry-run", args, "", warned, preview, "confirm", <<>>, <<>>, l.confirmMessage, 2, Some(l))
      ELSE Outcome("dry-run", args, "", warned, preview, "allowed", <<>>, <<>>, <<>>, 0, Some(l))

\* dry-run after the preview is printed: the issues, the rate limit, the
\* confirmation, in this order, each ending the process.
DryRunExit(args, warned, l) ==
  LET preview == Some(DryRunPreview(l, args.assumeYes))
  IN  IF Len(l.issues) > 0
        THEN Outcome("dry-run", args, "", warned, preview, "issues", l.issues, <<>>, <<>>, 1, Some(l))
      ELSE IF l.wouldExceed
        THEN Outcome("dry-run", args, "", warned, preview, "rate", <<>>, RateReport(l), <<>>, 1, Some(l))
      ELSE IF l.needsConfirm /\ ~args.assumeYes
        THEN Outcome("dry-run", args, "", warned, preview, "confirm", <<>>, <<>>, l.confirmMessage, 2, Some(l))
      ELSE Outcome("dry-run", args, "", warned, preview, "allowed", <<>>, <<>>, <<>>, 0, Some(l))

\* The dry-run action.
DryRunOutcome(args) ==
  LET refused == Precheck(args)
      warned == args.schemaFile = "unparseable"
  IN  IF refused # "" THEN Fail("dry-run", args, refused)
      ELSE IF SchemaLoaded(args.schemaFile) /\ CompileThrows(args.schemaFile)
        THEN Uncaught("dry-run", args, warned)
      ELSE DryRunExit(args, warned, DryRunLocals(Get(policies), args))

\* An exec that only takes the rule of the very pack id.
ExecLocals_ExactOnly(rules, args) ==
  LET idx == FindExact(rules, args.packId, args.toolName)
  IN  IF idx # 0
        THEN Locals(idx, RuleNeedsConfirm(rules[idx]),
                    RuleConfirmMessage(rules[idx], args.toolName),
                    RuleAllowlist(rules[idx]), RuleRateLimit(rules[idx]), args)
        ELSE Locals(0, FALSE, <<>>, <<>>, DefaultRateLimit, args)

\* exec: the rule's values, or the initial values without a rule.
ExecLocals(rules, args) ==
  LET idx == FindRule(rules, args.packId, args.toolName)
  IN  IF idx # 0
        THEN Locals(idx, RuleNeedsConfirm(rules[idx]),
                    RuleConfirmMessage(rules[idx], args.toolName),
                    RuleAllowlist(rules[idx]), RuleRateLimit(rules[idx]), args)
        ELSE Locals(0, FALSE, <<>>, <<>>, DefaultRateLimit, args)

\* The keys of exec's mock adapters: a@1:t stands for the two tools that
\* have one.
HasAdapter(packId, toolName) == packId = A1 /\ toolName = "t"

\* ExecExit without the rate-limit step.
ExecExit_NoRateLimit(args, warned, l) ==
  IF Len(l.issues) > 0
    THEN Outcome("exec", args, "", warned, NoPreview, "issues", l.issues, <<>>, <<>>, 1, Some(l))
  ELSE IF l.needsConfirm /\ ~args.assumeYes
    THEN Outcome("exec", args, "", warned, NoPreview, "confirm", <<>>, <<>>, l.confirmMessage, 2, Some(l))
  ELSE Outcome("exec", args, "", warned, NoPreview,
               IF HasAdapter(args.packId, args.toolName) THEN "adapter" ELSE "simulated",
               <<>>, <<>>, <<>>, 0, Some(l))

\* ExecExit without the confirmation step.
ExecExit_NoConfirm(args, warned, l) ==
  IF Len(l.issues) > 0
    THEN Outcome("exec", args, "", warned, NoPreview, "issues", l.issues, <<>>, <<>>, 1, Some(l))
  ELSE IF l.wouldExceed
    THEN Outcome("exec", args, "", warned, NoPreview, "rate", <<>>, RateReport(l), <<>>, 1, Some(l))
  ELSE Outcome("exec", args, "", warned, NoPreview,
               IF HasAdapter(args.packId, args.toolName) THEN "adapter" ELSE "simulated",
               <<>>, <<>>, <<>>, 0, Some(l))

\* exec after the checks: the issues, the rate limit, the confirmation, in
\* this order, each ending the process; else the mock execution.
ExecExit(args, warned, l) ==
  IF Len(l.issues) > 0
    THEN Outcome("exec", args, "", warned, NoPreview, "issues", l.issues, <<>>, <<>>, 1, Some(l))
  ELSE IF l.wouldExceed
    THEN Outcome("exec", args, "", warned, NoPreview, "rate", <<>>, RateReport(l), <<>>, 1, Some(l))
  ELSE IF l.needsConfirm /\ ~args.assumeYes
    THEN Outcome("exec", args, "", warned, NoPreview, "confirm", <<>>, <<>>, l.confirmMessage, 2, Some(l))
  ELSE Outcome("exec", args, "", warned, NoPreview,
               IF HasAdapter(args.packId, args.toolName) THEN "adapter" ELSE "simulated",
               <<>>, <<>>, <<>>, 0, Some(l))

\* The exec action.
ExecOutcome(args) ==
  LET refused == Precheck(args)
      warned == args.schemaFile = "unparseable"
  IN  IF refused # "" THEN Fail("exec", args, refused)
      ELSE IF SchemaLoaded(args.schemaFile) /\ CompileThrows(args.schemaFile)
        THEN Uncaught("exec", args, warned)
      ELSE ExecExit(args, warned, ExecLocals(Get(policies), args))

-----------------------------------------------------------------------------
(* The host that embeds the decision: one rolling counter for the (pack,   *)
(* tool) it serves, the number of calls it admitted in the current window, *)
(* and per request slot the request being served.                          *)

Requests == 1..MaxRequests

\* No request, nothing counted: also the host of a directory where only the
\* CLI is run by hand.
HostIdle ==
  [ counter |-> 0, admitted |-> 0,
    pc |-> [r \in Requests |-> "idle"],
    req |-> [r \in Requests |-> DefaultArgs] ]

-----------------------------------------------------------------------------
(* The state machine *)

\* A stack with its lockfile and any policies file; no command has run.
Init ==
  /\ stack = Some(LockedPacks)
  /\ lock = Some(LockedPacks)
  /\ policies \in PolicyFiles
  /\ out = Idle
  /\ host = HostIdle

\* ap dry-run --tool <packId:toolName> ...
DryRun ==
  /\ out.cmd = "none"
  /\ \E args \in Args : out' = DryRunOutcome(args)
  /\ UNCHANGED <<stack, lock, policies, host>>

\* ap exec --tool <packId:toolName> ...
Exec ==
  /\ out.cmd = "none"
  /\ \E args \in Args : out' = ExecOutcome(args)
  /\ UNCHANGED <<stack, lock, policies, host>>

\* The process has ended; the next command starts a new one.
NextCommand ==
  /\ out.cmd # "none"
  /\ out' = Idle
  /\ UNCHANGED <<stack, lock, policies, host>>

Next == DryRun \/ Exec \/ NextCommand

Spec == Init /\ [][Next]_vars

-----------------------------------------------------------------------------
(* What the properties speak of, taken from the inputs and the policies    *)
(* file rather than from the action's locals.                              *)

\* A dry-run or exec process reached the decision.
Decided == out.cmd \in {"dry-run", "exec"} /\ IsSome(out.locals)

\* The locals of the decided call.
L == Get(out.locals)

\* The rule the call used (only where L.rule # 0).
UsedRule == Get(policies)[L.rule]

\* The number of calls already made that the decision is handed.
CallsSoFar ==
  LET n == out.args.callsSoFar
  IN  IF n = None THEN 0 ELSE IF Get(n) < 0 THEN 0 ELSE Get(n)

\* The rate limit that applies: the used rule's, else 20 calls per 60 s.
ApplicableLimit ==
  IF L.rule # 0 /\ UsedRule.rateLimit # None
    THEN Get(UsedRule.rateLimit)
    ELSE [maxCalls |-> 20, windowSec |-> 60]

QuotaExceeded == CallsSoFar + 1 > ApplicableLimit.maxCalls

\* The used rule requires confirmation.
ConfirmRequired ==
  L.rule # 0 /\ UsedRule.confirm # None /\ Get(UsedRule.confirm).required

ConfirmOpen == ConfirmRequired /\ ~out.args.assumeYes

NoIssues == L.issues = <<>>

\* The four verdicts, as the process shows them: the message it ends with
\* and its exit code.
IsBlocked == out.report = "issues" /\ out.exit = 1
IsNeedsConfirmation == out.report = "confirm" /\ out.exit = 2
IsRateLimited == out.report = "rate" /\ out.exit = 1
IsOk == out.report \in {"allowed", "adapter", "simulated"} /\ out.exit = 0

\* dry-run's status string, "" where no preview is printed.
Status == IF out.preview = None THEN "" ELSE Get(out.preview).status

-----------------------------------------------------------------------------
(* Properties *)

\* C1: for every dry-run or exec call with no schema issue and no allowlist
\* issue, whose rule requires confirmation, with confirmation not granted and
\* callsSoFar + 1 > maxCalls, the outcome is NeedsConfirmation (the confirm
\* message, exit code 2) and not RateLimited.
C1_ConfirmBeforeRateLimit ==
  (Decided /\ NoIssues /\ ConfirmOpen /\ QuotaExceeded)
    => (IsNeedsConfirmation /\ ~IsRateLimited)

\* C2: whenever the issue list is non-empty, dry-run and exec end Blocked
\* (the issues are printed, exit code 1, dry-run's status is 'blocked'),
\* whatever the confirmation and the quota are.
C2_IssuesAlwaysBlock ==
  (Decided /\ ~NoIssues)
    => /\ IsBlocked
       /\ out.issues = L.issues
       /\ out.cmd = "dry-run" => Status = "blocked"

\* C2 witness: a call with a schema violation and a disallowed field, with
\* confirmation required and not granted and the quota exceeded, is Blocked.
C2_Witness ==
  /\ Decided
  /\ Len(L.issues) = 2
  /\ L.issues[2][1] = "allowlist: unexpected fields"
  /\ ConfirmOpen
  /\ QuotaExceeded
  /\ IsBlocked

\* No rule of the policies file is for the call's tool and pack name (neither
\* this pack id nor another version of the pack).
NoRuleMatches ==
  \A i \in 1..Len(Get(policies)) :
     LET r == Get(policies)[i]
     IN  ~(r.tool = out.args.toolName /\ PackName(r.pack) = PackName(out.args.packId))

C4_RateLimitClamped ==
  (Decided /\ L.rule # 0 /\ UsedRule.rateLimit # None)
    => /\ L.rateLimit.maxCalls >= 1
       /\ L.rateLimit.windowSec >= 1
       /\ (Get(UsedRule.rateLimit).maxCalls <= 0 /\ CallsSoFar = 0) => ~IsRateLimited

\* The call passes the checks made before the schema is compiled.
Admitted == out.cmd \in {"dry-run", "exec"} /\ out.stderr \in {"", "uncaught"}

\* C5: when the tool's schema document is present but does not compile,
\* dry-run and exec end with an uncaught exception and report no verdict, no
\* preview, no issue, no rate and no confirmation result; and no process that
\* reports a verdict (Ok, Blocked, NeedsConfirmation, RateLimited) ends that
\* way.
C5_CompileFailureIsDistinct ==
  /\ (Admitted /\ out.args.schemaFile = "uncompilable")
       => /\ out.stderr = "uncaught"
          /\ out.exit # 0
          /\ out.report = "none"
          /\ out.preview = None
          /\ out.issues = <<>> /\ out.rate = <<>> /\ out.confirm = <<>>
          /\ out.locals = None
  /\ (IsOk \/ IsBlocked \/ IsNeedsConfirmation \/ IsRateLimited \/ Decided)
       => out.stderr = ""

\* C5 witness: a call with an invalid payload against a schema document that
\* does not compile ends with the uncaught exception.
C5_Witness ==
  /\ out.cmd \in {"dry-run", "exec"}
  /\ out.args.schemaFile = "uncompilable"
  /\ out.args.payload = Some(<<>>)
  /\ out.stderr = "uncaught"

\* The message a rule's confirmation carries: the rule's own, or "Proceed
\* with <toolName>?" when the rule has none (or an empty one).
ExpectedConfirmMessage ==
  LET c == Get(UsedRule.confirm)
  IN  IF c.message # None /\ Get(c.message) # <<>>
        THEN Get(c.message)
        ELSE <<"Proceed with ", out.args.toolName, "?">>

\* C6: for every call with no schema issue and no allowlist issue, a rule
\* that requires confirmation, confirmation not granted and callsSoFar + 1 <=
\* maxCalls, the verdict is NeedsConfirmation with the rule's confirm message
\* (or "Proceed with <toolName>?" when the rule has none) and exit code 2.
C6_NeedsConfirmation ==
  (Decided /\ NoIssues /\ ConfirmOpen /\ ~QuotaExceeded)
    => /\ IsNeedsConfirmation
       /\ out.confirm = ExpectedConfirmMessage
       /\ out.cmd = "dry-run"
            => /\ Status = "needs-confirmation"
               /\ Get(out.preview).confirmMessage = ExpectedConfirmMessage

\* C6 witness: a rule with a message of its own, confirmation not granted,
\* the last call the quota admits.
C6_Witness ==
  /\ Decided /\ NoIssues /\ ConfirmOpen
  /\ CallsSoFar + 1 = ApplicableLimit.maxCalls
  /\ out.confirm = <<"Sure?">>
  /\ out.exit = 2

\* C7: for every call with no issues, confirmation granted or not required,
\* and callsSoFar + 1 > maxCalls, the verdict is RateLimited and reports
\* attempted = callsSoFar + 1 with the applicable maxCalls and windowSec.
C7_RateLimited ==
  (Decided /\ NoIssues /\ ~ConfirmOpen /\ QuotaExceeded)
    => /\ IsRateLimited
       /\ out.rate = <<CallsSoFar + 1, ApplicableLimit.maxCalls, ApplicableLimit.windowSec>>
       /\ out.cmd = "dry-run" => Status = "rate-limited"

\* C7 witness: confirmation required and granted, the first call over the
\* limit of the rule.
C7_Witness ==
  /\ Decided /\ NoIssues
  /\ ConfirmRequired /\ out.args.assumeYes
  /\ CallsSoFar = ApplicableLimit.maxCalls
  /\ ApplicableLimit.maxCalls = 2
  /\ out.rate = <<3, 2, 60>>

\* C8: the verdict is Ok (dry-run status 'ok', exit code 0, exec proceeds to
\* the mock execution) if and only if the issue list is empty, confirmation
\* is not required or is granted, and callsSoFar + 1 <= maxCalls; a process
\* that did not reach the decision is never Ok.
C8_OkIff ==
  /\ Decided
       => LET admit == NoIssues /\ ~ConfirmOpen /\ ~QuotaExceeded
          IN  /\ IsOk <=> admit
              /\ out.exit = 0 <=> admit
              /\ out.cmd = "dry-run" => (Status = "ok" <=> admit)
              /\ out.cmd = "dry-run" => (out.report = "allowed" <=> admit)
              /\ out.cmd = "exec" => (out.report \in {"adapter", "simulated"} <=> admit)
  /\ (out.cmd \in {"dry-run", "exec"} /\ ~Decided) => (~IsOk /\ out.exit # 0)

\* C8 witness: exec of a valid payload under a rule that requires no
\* confirmation, quota not exceeded, reaches the mock execution.
C8_Witness ==
  /\ Decided /\ out.cmd = "exec"
  /\ L.rule # 0 /\ ~ConfirmRequired
  /\ out.args.schemaFile = "ok" /\ NoIssues
  /\ out.report = "adapter" /\ out.exit = 0

\* C9: the current call counts toward the limit: wouldExceed is true exactly
\* when callsSoFar + 1 > maxCalls, so callsSoFar = maxCalls - 1 is not
\* exceeded and callsSoFar = maxCalls is (maxCalls = 20: 19 passes, 20 is
\* RateLimited), for every maxCalls >= 1.
C9_RateBoundary ==
  Decided
    => /\ L.wouldExceed <=> (CallsSoFar + 1 > ApplicableLimit.maxCalls)
       /\ CallsSoFar = ApplicableLimit.maxCalls - 1 => ~L.wouldExceed /\ ~IsRateLimited
       /\ (CallsSoFar = ApplicableLimit.maxCalls /\ ApplicableLimit.maxCalls >= 1)
            => /\ L.wouldExceed
               /\ NoIssues => IsRateLimited
       /\ out.cmd = "dry-run" => Get(out.preview).wouldExceed = L.wouldExceed

\* C9 witness: maxCalls = 20 and callsSoFar = 19, the rate check passes.
C9_Witness ==
  /\ Decided /\ NoIssues
  /\ ApplicableLimit.maxCalls = 20 /\ CallsSoFar = 19
  /\ ~L.wouldExceed /\ ~IsRateLimited

\* The indices of the rules for this very pack id and tool, and of the rules
\* for the tool and any version of the pack.
ExactRules ==
  { i \in 1..Len(Get(policies)) :
      Get(policies)[i].pack = out.args.packId /\ Get(policies)[i].tool = out.args.toolName }

SameNameRules ==
  { i \in 1..Len(Get(policies)) :
      /\ PackName(Get(policies)[i].pack) = PackName(out.args.packId)
      /\ Get(policies)[i].tool = out.args.toolName }

Least(S) == CHOOSE i \in S : \A j \in S : i <= j

\* C10: the rule lookup is two-phase (pack ids of the form name@version): if
\* the policy list has a rule of exactly the requested pack id and tool, the
\* first such rule is used, even when a rule of another version of the pack
\* comes earlier in the list; only when there is no exact rule is the first
\* rule of the same pack name for that tool used.
C10_TwoPhaseLookup ==
  Decided
    => /\ ExactRules # {} => L.rule = Least(ExactRules)
       /\ (ExactRules = {} /\ SameNameRules # {}) => L.rule = Least(SameNameRules)
       /\ (L.rule # 0 /\ L.rule \notin ExactRules) => ExactRules = {}
       /\ L.rule # 0
            => /\ L.needsConfirm = ConfirmRequired
               /\ L.rateLimit = ApplicableLimit

\* C10 witness: the exact rule is used although a rule of another version of
\* the pack, with another confirm setting, comes before it.
C10_Witness ==
  /\ Decided
  /\ ExactRules # {}
  /\ \E j \in SameNameRules :
        /\ j < Least(ExactRules)
        /\ Get(policies)[j].confirm # Get(policies)[Least(ExactRules)].confirm
  /\ L.rule = Least(ExactRules)

-----------------------------------------------------------------------------
(* Payloads with nested objects, and rules with longer allowlists *)

\* Top-level fields; `inner` holds the keys of the object a field of type
\* "object" carries.
ObjectEntryOrder ==
  << [key |-> "title",  type |-> "string", inner |-> <<>>],
     [key |-> "extra",  type |-> "number", inner |-> <<>>],
     [key |-> "extra",  type |-> "object", inner |-> <<"secret">>],
     [key |-> "secret", type |-> "string", inner |-> <<>>] >>

ObjectPayloads ==
  { SelectSeq(ObjectEntryOrder, LAMBDA e : e \in S) :
      S \in { T \in SUBSET SeqToSet(ObjectEntryOrder) :
                \A e1, e2 \in T : e1.key = e2.key => e1 = e2 } }

LongAllowlistFields ==
  { None, Some(<<>>), Some(<<"title">>), Some(<<"title", "extra">>), Some(<<"secret">>) }

\* One rule for a@1:t, limit 1 per 60 s.
ObjectRules ==
  [ pack : {A1}, tool : {"t"},
    confirm : { Some([required |-> FALSE, message |-> None]),
                Some([required |-> TRUE,  message |-> Some(<<"Sure?">>)]) },
    allowlist : LongAllowlistFields,
    rateLimit : { Some([maxCalls |-> 1, windowSec |-> 60]) } ]

ObjectPolicyFiles == { Some(rs) : rs \in SeqsUpTo(ObjectRules, 1) }

ObjectArgs ==
  [ packId : SeqToSet(LockedPacks), toolName : {"t"}, schemaFile : {"missing", "ok"},
    payload : {Some(p) : p \in ObjectPayloads}, assumeYes : BOOLEAN,
    callsSoFar : {Some(0), Some(1)} ]

-----------------------------------------------------------------------------
(* Strings whose letters matter (side-effect tags, property names) are     *)
(* sequences of characters.                                                *)

UpperChars ==
  << "A", "B", "C", "D", "E", "F", "G", "H", "I", "J", "K", "L", "M",
     "N", "O", "P", "Q", "R", "S", "T", "U", "V", "W", "X", "Y", "Z" >>

LowerChars ==
  << "a", "b", "c", "d", "e", "f", "g", "h", "i", "j", "k", "l", "m",
     "n", "o", "p", "q", "r", "s", "t", "u", "v", "w", "x", "y", "z" >>

LowerChar(c) ==
  IF \E i \in 1..Len(UpperChars) : UpperChars[i] = c
    THEN LowerChars[CHOOSE i \in 1..Len(UpperChars) : UpperChars[i] = c]
    ELSE c

\* String(s).toLowerCase()
ToLowerCase(s) == [i \in 1..Len(s) |-> LowerChar(s[i])]

\* ['send', 'create', 'update', 'delete', 'write', 'post']
ConfirmKeywords ==
  << <<"s", "e", "n", "d">>,
     <<"c", "r", "e", "a", "t", "e">>,
     <<"u", "p", "d", "a", "t", "e">>,
     <<"d", "e", "l", "e", "t", "e">>,
     <<"w", "r", "i", "t", "e">>,
     <<"p", "o", "s", "t">> >>

\* se.some(s => [...].includes(s)) over the lowercased tags: a tag counts
\* when it IS a keyword.
SomeKeyword(sideEffects) ==
  \E i \in 1..Len(sideEffects) : Contains(ConfirmKeywords, sideEffects[i])

\* (tool.side_effects || []).map(s => String(s).toLowerCase())
LowerTags(sideEffects) ==
  IF IsSome(sideEffects)
    THEN [i \in 1..Len(Get(sideEffects)) |-> ToLowerCase(Get(sideEffects)[i])]
    ELSE <<>>

\* Side-effect tags of tools.
Tags ==
  [ send   |-> <<"s", "e", "n", "d">>,
    SEND   |-> <<"S", "E", "N", "D">>,
    Post   |-> <<"P", "o", "s", "t">>,
    read   |-> <<"r", "e", "a", "d">>,
    sender |-> <<"s", "e", "n", "d", "e", "r">> ]

-----------------------------------------------------------------------------
(* The demo host (scripts/host-demo.mjs): it decides from the manifest of  *)
(* an exported bundle, without policies and without a rate limit.          *)

\* The manifest's entry of the tool: its allowlist and side effects.
ManifestTools ==
  [ allowlist : LongAllowlistFields,
    side_effects : { None, Some(<<Tags.SEND>>), Some(<<Tags.read, Tags.sender>>) } ]

DefaultHostArgs ==
  [ bundle |-> "ok", packId |-> A1, toolName |-> "t",
    tool |-> [allowlist |-> None, side_effects |-> None],
    schemaFile |-> "ok", payload |-> Some(<<>>), assumeYes |-> FALSE ]

\* Calls that reach the decision, and calls that throw in the compile.
HostCallArgs ==
  [ bundle : {"ok"}, packId : {A1}, toolName : {"t"}, tool : ManifestTools,
    schemaFile : {"ok"}, payload : {Some(p) : p \in ObjectPayloads},
    assumeYes : BOOLEAN ]

\* Calls the host refuses before the decision: no manifest, a pack or a tool
\* the manifest does not have, no schema file or one that does not parse or
\* compile, a payload file that cannot be read.
HostRefusedArgs ==
  { [DefaultHostArgs EXCEPT !.bundle = "missing"] } \cup
  { [DefaultHostArgs EXCEPT !.packId = p] : p \in PackIds } \cup
  { [DefaultHostArgs EXCEPT !.toolName = t] : t \in ToolNames } \cup
  { [DefaultHostArgs EXCEPT !.schemaFile = f] : f \in SchemaFiles } \cup
  { [DefaultHostArgs EXCEPT !.payload = None] }

HostArgs == HostCallArgs \cup HostRefusedArgs

\* The checks before the validation; "" when all pass.
HostPrecheck(args) ==
  IF args.bundle = "missing" THEN "Not an ActionPacks bundle"
  ELSE IF ~Contains(LockedPacks, args.packId) THEN "Pack not found in manifest"
  ELSE IF args.toolName \notin PackTools(args.packId) THEN "Tool not found"
  ELSE IF args.schemaFile = "missing" THEN "Schema file missing"
  ELSE ""

\* const allowlist = Array.isArray(tool.allowlist) ? tool.allowlist : []
HostAllowlist(tool) == IF IsSome(tool.allowlist) THEN Get(tool.allowlist) ELSE <<>>

\* 2) Allowlist enforcement (from export manifest)
HostAllowlistIssues(allowlist, payload) ==
  IF Len(allowlist) > 0
    THEN LET bad == SelectSeq(ObjectKeys(payload), LAMBDA k : ~Contains(allowlist, k))
         IN  IF Len(bad) > 0
               THEN << <<"allowlist: unexpected fields">> \o bad >>
               ELSE <<>>
    ELSE <<>>

\* The host's values at the decision.
HostLocals(args) ==
  LET payload == Get(args.payload)
      allowlist == HostAllowlist(args.tool)
      sideEffects == LowerTags(args.tool.side_effects)
  IN  [ allowlist |-> allowlist,
        sideEffects |-> sideEffects,
        needsConfirm |-> SomeKeyword(sideEffects),
        confirmMessage |-> DefaultConfirmMessage(args.toolName),
        issues |-> SchemaIssues(ToolSchema, payload)
                     \o HostAllowlistIssues(allowlist, payload) ]

\* let status = 'ok'; ...
HostStatus(l, assumeYes) ==
  IF Len(l.issues) > 0 THEN "blocked"
  ELSE IF l.needsConfirm /\ ~assumeYes THEN "needs-confirmation"
  ELSE "ok"

\* The result the host prints.
HostResult(l, assumeYes) ==
  [ status |-> HostStatus(l, assumeYes),
    allowlist |-> l.allowlist,
    side_effects |-> l.sideEffects,
    confirmRequired |-> l.needsConfirm,
    confirmMessage |-> l.confirmMessage ]

\* A host that ends with the same code for a refused and for an unconfirmed call.
HostExit_OneCode(args, l) ==
  LET result == Some(HostResult(l, args.assumeYes))
  IN  IF Len(l.issues) > 0
        THEN Outcome("host-demo", args, "", FALSE, result, "issues", l.issues, <<>>, <<>>, 1, Some(l))
      ELSE IF l.needsConfirm /\ ~args.assumeYes
        THEN Outcome("host-demo", args, "", FALSE, result, "confirm", <<>>, <<>>, l.confirmMessage, 1, Some(l))
      ELSE Outcome("host-demo", args, "", FALSE, result, "allowed", <<>>, <<>>, <<>>, 0, Some(l))

\* The end of the host: the issues, then the confirmation, each ending the
\* process; else the mock execution.
HostExit(args, l) ==
  LET result == Some(HostResult(l, args.assumeYes))
  IN  IF Len(l.issues) > 0
        THEN Outcome("host-demo", args, "", FALSE, result, "issues", l.issues, <<>>, <<>>, 1, Some(l))
      ELSE IF l.needsConfirm /\ ~args.assumeYes
        THEN Outcome("host-demo", args, "", FALSE, result, "confirm", <<>>, <<>>, l.confirmMessage, 2, Some(l))
      ELSE Outcome("host-demo", args, "", FALSE, result, "allowed", <<>>, <<>>, <<>>, 0, Some(l))

\* A run of the host.
HostDemoOutcome(args) ==
  LET refused == HostPrecheck(args)
  IN  IF refused # "" THEN Fail("host-demo", args, refused)
      ELSE IF args.schemaFile = "unparseable" THEN Uncaught("host-demo", args, FALSE)
      ELSE IF args.payload = None THEN Fail("host-demo", args, "Failed to read payload")
      ELSE IF CompileThrows(args.schemaFile) THEN Uncaught("host-demo", args, FALSE)
      ELSE HostExit(args, HostLocals(args))

-----------------------------------------------------------------------------
(* The deciders side by side: dry-run and exec under one-rule policies,    *)
(* and the demo host, over payloads with nested objects.                   *)

\* The stack directory: complete, or without policies.yaml, or as init
\* leaves it, or empty.
DecidersInit ==
  /\ \/ /\ stack = Some(LockedPacks)
        /\ lock = Some(LockedPacks)
        /\ policies \in ObjectPolicyFiles \cup {None}
     \/ /\ stack \in {None, Some(<<>>)}
        /\ lock = None
        /\ policies = None
  /\ out = Idle
  /\ host = HostIdle

\* ap dry-run --tool <packId:toolName> --file <payload>
DryRunObject ==
  /\ out.cmd = "none"
  /\ \E args \in ObjectArgs : out' = DryRunOutcome(args)
  /\ UNCHANGED <<stack, lock, policies, host>>

\* An exec that keeps count in policies.yaml: an admitted call lowers the
\* maxCalls of its rule.
ExecObject_Counting ==
  /\ out.cmd = "none"
  /\ \E args \in ObjectArgs :
       LET o == ExecOutcome(args)
           idx == IF IsSome(o.locals) THEN Get(o.locals).rule ELSE 0
       IN  /\ out' = o
           /\ policies' =
                IF o.exit = 0 /\ idx # 0
                  THEN Some([Get(policies) EXCEPT ![idx].rateLimit =
                               Some([Get(@) EXCEPT !.maxCalls = @ - 1])])
                  ELSE policies
  /\ UNCHANGED <<stack, lock, host>>

\* ap exec --tool <packId:toolName> --file <payload>
ExecObject ==
  /\ out.cmd = "none"
  /\ \E args \in ObjectArgs : out' = ExecOutcome(args)
  /\ UNCHANGED <<stack, lock, policies, host>>

\* node scripts/host-demo.mjs --bundle <dir> --tool <packId:toolName> --file <payload>
HostDemo ==
  /\ out.cmd = "none"
  /\ \E args \in HostArgs : out' = HostDemoOutcome(args)
  /\ UNCHANGED <<stack, lock, policies, host>>

DecidersNext == DryRunObject \/ ExecObject \/ HostDemo \/ NextCommand

DecidersSpec == DecidersInit /\ [][DecidersNext]_vars

-----------------------------------------------------------------------------
(* C11 *)

\* The host reached its decision.
HostDecided == out.cmd = "host-demo" /\ IsSome(out.locals)

\* The allowlist that applies to the decided call: the matched rule's, the
\* manifest's for the host; empty when there is none.
ApplicableAllowlist ==
  IF out.cmd = "host-demo"
    THEN (IF IsSome(out.args.tool.allowlist) THEN Get(out.args.tool.allowlist) ELSE <<>>)
  ELSE IF L.rule # 0 /\ IsSome(UsedRule.allowlist) THEN Get(UsedRule.allowlist)
  ELSE <<>>

\* The top-level keys of the payload that are not in the applicable allowlist.
KeysOutside ==
  SelectSeq(ObjectKeys(Get(out.args.payload)),
            LAMBDA k : ~Contains(ApplicableAllowlist, k))

\* The positions of the allowlist issues among the printed issues.
AllowlistIssuePositions ==
  { i \in 1..Len(out.issues) : Head(out.issues[i]) = "allowlist: unexpected fields" }

\* C11: in dry-run, exec and the demo host an allowlist issue is printed
\* exactly when the applicable allowlist is non-empty and some top-level key
\* of the payload is outside it; there is at most one, and it lists exactly
\* the top-level keys outside the allowlist.  Keys of nested objects play no
\* part, and an empty or missing allowlist blocks nothing.
C11_AllowlistIssue ==
  (Decided \/ HostDecided)
    => /\ (AllowlistIssuePositions # {})
            <=> (Len(ApplicableAllowlist) > 0 /\ Len(KeysOutside) > 0)
       /\ Cardinality(AllowlistIssuePositions) <= 1
       /\ \A i \in AllowlistIssuePositions : Tail(out.issues[i]) = KeysOutside

\* A payload whose nested object holds a key outside a non-empty allowlist
\* that covers every top-level key: no allowlist issue.
C11_Witness ==
  /\ (Decided \/ HostDecided)
  /\ ApplicableAllowlist = <<"title", "extra">>
  /\ \E i \in 1..Len(Get(out.args.payload)) :
        Contains(Get(out.args.payload)[i].inner, "secret")
  /\ AllowlistIssuePositions = {}

-----------------------------------------------------------------------------
(* The catalog that add, bump and policies suggest read: index.yaml and,   *)
(* per pack directory, pack.yaml and the schema files.                     *)

\* Names of schema properties and of allowlist fields, letter by letter.
Names ==
  [ title       |-> <<"t", "i", "t", "l", "e">>,
    body        |-> <<"b", "o", "d", "y">>,
    pass        |-> <<"p", "a", "s", "s">>,
    apiKey      |-> <<"a", "p", "i", "K", "e", "y">>,
    API_KEY     |-> <<"A", "P", "I", "_", "K", "E", "Y">>,
    author      |-> <<"a", "u", "t", "h", "o", "r">>,
    myToken     |-> <<"m", "y", "T", "o", "k", "e", "n">>,
    password    |-> <<"p", "a", "s", "s", "w", "o", "r", "d">>,
    secretName  |-> <<"s", "e", "c", "r", "e", "t", "N", "a", "m", "e">>,
    Bearer      |-> <<"B", "e", "a", "r", "e", "r">>,
    credentials |-> <<"c", "r", "e", "d", "e", "n", "t", "i", "a", "l", "s">> ]

\* A tool of a pack.yaml: x-actionpack's side_effects and allowlist_fields
\* (absent: None), and what is at its schema path: the file ("missing",
\* "unparseable" or "ok"), the keys of its `properties` (None: the schema
\* has none) and whether it has a description.
CatalogTool(name, sideEffects, allowlistFields, schemaFile, properties, description) ==
  [ name |-> name, side_effects |-> sideEffects, allowlist_fields |-> allowlistFields,
    schemaFile |-> schemaFile, properties |-> properties, description |-> description ]

\* pack.yaml of a@1
MetaA1 ==
  << CatalogTool("t", Some(<<Tags.SEND>>), Some(<<Names.title, Names.password>>), "ok",
                 Some(<<Names.title, Names.body>>), TRUE),
     CatalogTool("u", Some(<<Tags.read, Tags.sender>>), None, "ok",
                 Some(<<Names.title, Names.apiKey, Names.author, Names.pass, Names.myToken,
                        Names.API_KEY, Names.body, Names.secretName, Names.Bearer,
                        Names.credentials, Names.password>>), FALSE) >>

\* pack.yaml of a@2
MetaA2 ==
  << CatalogTool("t", Some(<<Tags.read, Tags.Post>>), Some(<<>>), "ok",
                 Some(<<Names.body, Names.author>>), FALSE),
     CatalogTool("u", None, None, "unparseable", None, FALSE),
     CatalogTool("v", Some(<<Tags.send>>), None, "missing", None, FALSE),
     CatalogTool("w", Some(<<>>), None, "ok", None, TRUE) >>

\* A pack id the catalog index does not list.
Unlisted == <<"c", "@", "1">>

\* index.yaml: the ids the catalog lists.
CatalogIndex == {A1, A2, B1}

\* pack.yaml at the path of an indexed pack; b@1's directory has none.
PackMeta(packId) ==
  IF packId = A1 THEN Some(MetaA1)
  ELSE IF packId = A2 THEN Some(MetaA2)
  ELSE None

\* parsePackId(packId).version
PackVersion(packId) ==
  LET at == LastIndexOfAt(packId)
  IN  IF at <= 0 THEN <<"latest">> ELSE SubSeq(packId, at + 2, Len(packId))

\* A lockfile entry {id, version, path} is held as its id: the commands
\* write version and path together with the id, from parsePackId(id) and
\* from the catalog's entry of the id.
LockEntries(lockFile) == IF IsSome(lockFile) THEN Get(lockFile) ELSE <<>>

\* A command that ran to its end.
Done(cmd, args, warned) ==
  Outcome(cmd, args, "", warned, NoPreview, "none", <<>>, <<>>, <<>>, 0, NoLocals)

-----------------------------------------------------------------------------
(* init, add, bump *)

\* add: stack.packs after the includes check.
AddToStack(packs, packId) ==
  IF Contains(packs, packId) THEN packs ELSE Append(packs, packId)

\* add: the lock entry to overwrite, 0 if there is none.
AddFindExisting(entries, packId) ==
  First({ i \in 1..Len(entries) :
            \/ entries[i] = packId
            \/ /\ StartsWith(entries[i], PackName(packId) \o <<"@">>)
               /\ PackVersion(entries[i]) = PackVersion(packId) })

\* bump: the index of the stack entry to replace, 0 for -1.
BumpFindIndex(packs, name) ==
  First({ i \in 1..Len(packs) : StartsWith(packs[i], name \o <<"@">>) })

\* bump: the lock entry to overwrite, 0 if there is none.
BumpFindExisting(entries, name) ==
  First({ i \in 1..Len(entries) : StartsWith(entries[i], name \o <<"@">>) })

\* The lock's packs with the entry at idx overwritten, or with a new entry.
PutEntry(entries, idx, packId) ==
  IF idx # 0 THEN [entries EXCEPT ![idx] = packId] ELSE Append(entries, packId)

\* add: every listed pack, and one call that finds no catalog.
AddArgs == [ packId : PackIds, catalog : {"ok"} ]
             \cup [ packId : {A1}, catalog : {"missing"} ]

\* bump: the versions of pack a, a call without version, and one call that
\* finds no catalog.
BumpArgs == [ packId : {A1, A2, <<"a">>}, catalog : {"ok"} ]
              \cup [ packId : {A2}, catalog : {"missing"} ]

\* ap init <stackPath>: stack.yaml with no packs unless there is one already.
InitResult ==
  [ stack |-> IF stack = None THEN Some(<<>>) ELSE stack,
    lock  |-> lock,
    out   |-> Done("init", [stackPath |-> "stack"], FALSE) ]

\* ap add <packId>: the files and the outcome after the command.
AddResult(args) ==
  IF stack = None
    THEN [stack |-> stack, lock |-> lock, out |-> Fail("add", args, "No stack")]
  ELSE
    LET saved == Some(AddToStack(Get(stack), args.packId))
        entries == LockEntries(lock)
    IN  IF args.catalog = "missing"
          THEN [stack |-> saved, lock |-> lock,
                out |-> Fail("add", args, "No catalog found")]
        ELSE IF args.packId \notin CatalogIndex
          THEN [stack |-> saved, lock |-> lock,
                out |-> Fail("add", args, "Pack not found in catalog index")]
        ELSE [stack |-> saved,
              lock  |-> Some(PutEntry(entries, AddFindExisting(entries, args.packId),
                                      args.packId)),
              out   |-> Done("add", args, FALSE)]

\* ap bump <name@version>: the files and the outcome after the command.
BumpResult(args) ==
  LET name == PackName(args.packId)
  IN  IF PackVersion(args.packId) = <<"latest">>
        THEN [stack |-> stack, lock |-> lock,
              out |-> Fail("bump", args, "Please specify an explicit version")]
      ELSE IF stack = None
        THEN [stack |-> stack, lock |-> lock, out |-> Fail("bump", args, "No stack")]
      ELSE IF BumpFindIndex(Get(stack), name) = 0
        THEN [stack |-> stack, lock |-> lock,
              out |-> Fail("bump", args, "Pack not found in stack")]
      ELSE
        LET saved == Some([Get(stack) EXCEPT ![BumpFindIndex(Get(stack), name)] = args.packId])
            entries == LockEntries(lock)
        IN  IF args.catalog = "missing"
              THEN [stack |-> saved, lock |-> lock,
                    out |-> Fail("bump", args, "No catalog found")]
            ELSE IF args.packId \notin CatalogIndex
              THEN [stack |-> saved, lock |-> lock,
                    out |-> Fail("bump", args, "Version not found in catalog index")]
            ELSE [stack |-> saved,
                  lock  |-> Some(PutEntry(entries, BumpFindExisting(entries, name),
                                          args.packId)),
                  out   |-> Done("bump", args, FALSE)]

-----------------------------------------------------------------------------
(* policies suggest *)

\* /(password|secret|token|apikey|api_key|auth|bearer|credential)/i
SensitivePatterns ==
  << <<"p", "a", "s", "s", "w", "o", "r", "d">>,
     <<"s", "e", "c", "r", "e", "t">>,
     <<"t", "o", "k", "e", "n">>,
     <<"a", "p", "i", "k", "e", "y">>,
     <<"a", "p", "i", "_", "k", "e", "y">>,
     <<"a", "u", "t", "h">>,
     <<"b", "e", "a", "r", "e", "r">>,
     <<"c", "r", "e", "d", "e", "n", "t", "i", "a", "l">> >>

\* p occurs in s
HasSubstring(s, p) ==
  \E i \in 1..(Len(s) - Len(p) + 1) : SubSeq(s, i, i + Len(p) - 1) = p

\* A test that only rejects a name that is itself one of the words.
IsSensitive_WholeName(k) ==
  \E j \in 1..Len(SensitivePatterns) : ToLowerCase(k) = SensitivePatterns[j]

\* regex.test(k): some alternative occurs in k, letters compared without case.
IsSensitive(k) ==
  \E j \in 1..Len(SensitivePatterns) : HasSubstring(ToLowerCase(k), SensitivePatterns[j])

\* The tool's schema after the load: null unless the file exists and parses.
SuggestSchemaLoaded(tool) == tool.schemaFile = "ok"

\* schema?.properties ? Object.keys(schema.properties) : []
SchemaProps(tool) ==
  IF SuggestSchemaLoaded(tool) /\ IsSome(tool.properties) THEN Get(tool.properties) ELSE <<>>

\* tool['x-actionpack']?.allowlist_fields || []
ExplicitAllow(tool) ==
  IF IsSome(tool.allowlist_fields) THEN Get(tool.allowlist_fields) ELSE <<>>

\* schemaProps.filter(k => !regex.test(k))
InferredAllow(tool) == SelectSeq(SchemaProps(tool), LAMBDA k : ~IsSensitive(k))

\* explicitAllow.length ? explicitAllow : inferredAllow
SuggestAllowlist(tool) ==
  IF Len(ExplicitAllow(tool)) > 0 THEN ExplicitAllow(tool) ELSE InferredAllow(tool)

\* A heuristic that compares the tags as they are written.
SuggestNeedsConfirm_AsWritten(tool) ==
  IsSome(tool.side_effects) /\ SomeKeyword(Get(tool.side_effects))

\* needsConfirm of the tool
SuggestNeedsConfirm(tool) == SomeKeyword(LowerTags(tool.side_effects))

\* needsConfirm ? { message: `Proceed with ${tool.name}?`, required: true }
\*              : { required: false }
SuggestConfirm(tool) ==
  IF SuggestNeedsConfirm(tool)
    THEN Some([required |-> TRUE, message |-> Some(DefaultConfirmMessage(tool.name))])
    ELSE Some([required |-> FALSE, message |-> None])

\* Math.max(1, parseInt(String(option), 10)): a number that may be NaN is
\* None for NaN, else Some(n).  Math.max of NaN is NaN.
SuggestDefault(parsed) ==
  IF parsed = None THEN None ELSE Some(Max(1, Get(parsed)))

\* schema?.description
SuggestDescription(tool) ==
  IF SuggestSchemaLoaded(tool) /\ tool.description THEN Some("description") ELSE None

\* What the rule of a tool takes from the tool and its schema.
SuggestToolFields(tool) ==
  [ tool |-> tool.name,
    confirm |-> SuggestConfirm(tool),
    allowlist |-> Some(SuggestAllowlist(tool)),
    description |-> SuggestDescription(tool) ]

\* The same for every tool of every pack.yaml of the catalog, by pack id and
\* position in meta.tools (the catalog does not change between commands).
SuggestToolTable ==
  [ packId \in CatalogIndex |->
      IF PackMeta(packId) = None THEN <<>>
      ELSE [ i \in 1..Len(Get(PackMeta(packId))) |->
               SuggestToolFields(Get(PackMeta(packId))[i]) ] ]

\* The rule pushed for a tool of a locked pack.
SuggestRule(packId, fields, defaultLimit, defaultWindow) ==
  [ pack |-> packId,
    tool |-> fields.tool,
    confirm |-> fields.confirm,
    allowlist |-> fields.allowlist,
    rateLimit |-> Some([maxCalls |-> defaultLimit, windowSec |-> defaultWindow]),
    description |-> fields.description ]

\* The rules of one lock entry: none when its directory has no pack.yaml
\* (meta.tools || [] otherwise).
SuggestPackRules(packId, defaultLimit, defaultWindow) ==
  [ i \in 1..Len(SuggestToolTable[packId]) |->
      SuggestRule(packId, SuggestToolTable[packId][i], defaultLimit, defaultWindow) ]

\* An output that starts from the rules policies.yaml already holds.
SuggestInitialRules_Keep(existing) == IF IsSome(existing) THEN Get(existing) ELSE <<>>

\* out.rules before the loop: rules: []
SuggestInitialRules(existing) == <<>>

\* for (const p of lock.packs): the rules pushed, in the order of the lock.
RECURSIVE SuggestLoop(_, _, _)
SuggestLoop(entries, defaultLimit, defaultWindow) ==
  IF entries = <<>> THEN <<>>
  ELSE SuggestPackRules(Head(entries), defaultLimit, defaultWindow)
         \o SuggestLoop(Tail(entries), defaultLimit, defaultWindow)

\* The packs for which console.warn is called: no pack.yaml, or a schema
\* that does not parse.
WarnedPacks ==
  { packId \in CatalogIndex :
      \/ PackMeta(packId) = None
      \/ \E j \in 1..Len(Get(PackMeta(packId))) :
            Get(PackMeta(packId))[j].schemaFile = "unparseable" }

SuggestWarned(entries) == \E i \in 1..Len(entries) : entries[i] \in WarnedPacks

\* parseInt of --rateLimit and of --windowSec (None: NaN), and the catalog.
SuggestArgs ==
  { [rateLimit |-> None,           windowSec |-> Some(DefaultWindowSec), catalog |-> "ok"],
    [rateLimit |-> Some(-1),       windowSec |-> Some(0),                catalog |-> "ok"],
    [rateLimit |-> Some(0),        windowSec |-> None,                   catalog |-> "ok"],
    [rateLimit |-> Some(MaxLimit), windowSec |-> Some(DefaultWindowSec), catalog |-> "ok"],
    [rateLimit |-> Some(DefaultMaxCalls), windowSec |-> Some(DefaultWindowSec),
     catalog |-> "missing"] }

\* ap policies suggest: policies.yaml and the outcome after the command.
SuggestResult(args) ==
  IF stack = None \/ lock = None
    THEN [policies |-> policies,
          out |-> Fail("suggest", args, "Missing stack and/or lock")]
  ELSE IF args.catalog = "missing"
    THEN [policies |-> policies, out |-> Fail("suggest", args, "No catalog found")]
  ELSE [ policies |-> Some(SuggestInitialRules(policies)
                            \o SuggestLoop(Get(lock), SuggestDefault(args.rateLimit),
                                           SuggestDefault(args.windowSec))),
         out |-> Done("suggest", args, SuggestWarned(Get(lock))) ]

-----------------------------------------------------------------------------
(* The commands that write the files, from an empty directory on *)

SuggestInit ==
  /\ stack = None
  /\ lock = None
  /\ policies = None
  /\ out = Idle
  /\ host = HostIdle

InitStack ==
  /\ stack' = InitResult.stack
  /\ lock' = InitResult.lock
  /\ out' = InitResult.out
  /\ UNCHANGED <<policies, host>>

Add ==
  \E args \in AddArgs :
    LET r == AddResult(args)
    IN  /\ stack' = r.stack
        /\ lock' = r.lock
        /\ out' = r.out
        /\ UNCHANGED <<policies, host>>

Bump ==
  \E args \in BumpArgs :
    LET r == BumpResult(args)
    IN  /\ stack' = r.stack
        /\ lock' = r.lock
        /\ out' = r.out
        /\ UNCHANGED <<policies, host>>

PoliciesSuggest ==
  \E args \in SuggestArgs :
    LET r == SuggestResult(args)
    IN  /\ policies' = r.policies
        /\ out' = r.out
        /\ UNCHANGED <<stack, lock, host>>

SuggestNext == InitStack \/ Add \/ Bump \/ PoliciesSuggest

SuggestSpec == SuggestInit /\ [][SuggestNext]_vars

-----------------------------------------------------------------------------
(* C12 .. C16: the rules policies suggest writes *)

\* policies suggest ran to its end: policies.yaml is its output for the
\* lock as it is now.
Suggested == out.cmd = "suggest" /\ out.exit = 0

\* The rules of policies.yaml (none without the file).
WrittenRules == IF IsSome(policies) THEN Get(policies) ELSE <<>>

\* The tools of the catalog's pack.yaml of a pack with this name.
ToolsNamed(packId, toolName) ==
  IF PackMeta(packId) = None THEN {}
  ELSE { Get(PackMeta(packId))[i] : i \in { j \in 1..Len(Get(PackMeta(packId))) :
                                              Get(PackMeta(packId))[j].name = toolName } }

\* The tool a written rule was made for.
ToolOf(rule) == CHOOSE tool \in ToolsNamed(rule.pack, rule.tool) : TRUE

\* The tag is one of the six words, letters compared without case.
IsKeywordTag(tag) ==
  ToLowerCase(tag) \in { <<"s", "e", "n", "d">>, <<"c", "r", "e", "a", "t", "e">>,
                         <<"u", "p", "d", "a", "t", "e">>, <<"d", "e", "l", "e", "t", "e">>,
                         <<"w", "r", "i", "t", "e">>, <<"p", "o", "s", "t">> }

\* The side-effect tags of a catalog tool, as written.
TagsOf(tool) == IF IsSome(tool.side_effects) THEN Get(tool.side_effects) ELSE <<>>

\* C12: every rule policies suggest writes has confirm.required = true
\* exactly when one of the tool's side-effect tags is, without regard to
\* case, one of send, create, update, delete, write, post; when it is true
\* the message is "Proceed with <toolName>?".
C12_SuggestConfirm ==
  \A i \in 1..Len(WrittenRules) :
     LET rule == WrittenRules[i]
         tags == TagsOf(ToolOf(rule))
     IN  /\ Get(rule.confirm).required <=> (\E j \in 1..Len(tags) : IsKeywordTag(tags[j]))
         /\ Get(rule.confirm).required
              => Get(rule.confirm).message = Some(<<"Proceed with ", rule.tool, "?">>)

\* A rule that requires confirmation for a tag written in capitals, next to
\* a rule that requires none for tags that only contain a keyword.
C12_Witness ==
  /\ Suggested
  /\ \E i, j \in 1..Len(WrittenRules) :
        /\ TagsOf(ToolOf(WrittenRules[i])) = <<Tags.SEND>>
        /\ Get(WrittenRules[i].confirm).required
        /\ TagsOf(ToolOf(WrittenRules[j])) = <<Tags.read, Tags.sender>>
        /\ ~Get(WrittenRules[j].confirm).required

\* The name contains one of the eight words, letters compared without case.
ContainsSensitiveWord(name) ==
  \E w \in { Names.password, <<"s", "e", "c", "r", "e", "t">>, <<"t", "o", "k", "e", "n">>,
              <<"a", "p", "i", "k", "e", "y">>, <<"a", "p", "i", "_", "k", "e", "y">>,
              <<"a", "u", "t", "h">>, <<"b", "e", "a", "r", "e", "r">>,
              <<"c", "r", "e", "d", "e", "n", "t", "i", "a", "l">> } :
     \E from \in 1..Len(name) : \E to \in from..Len(name) :
        ToLowerCase(SubSeq(name, from, to)) = w

\* The property names the tool's schema declares (none without a schema
\* that loads).
DeclaredProps(tool) ==
  IF tool.schemaFile = "ok" /\ IsSome(tool.properties) THEN Get(tool.properties) ELSE <<>>

\* Every catalog tool, and among the names their schemas declare those that
\* contain a sensitive word.
CatalogTools ==
  UNION { SeqToSet(Get(PackMeta(packId))) : packId \in { q \in CatalogIndex : PackMeta(q) # None } }

SensitiveDeclaredNames ==
  { name \in UNION { SeqToSet(DeclaredProps(tool)) : tool \in CatalogTools } :
      ContainsSensitiveWord(name) }

\* C13: the allowlist of a written rule is the tool's explicit
\* allowlist_fields, verbatim, when that list is non-empty; otherwise it is
\* the schema's declared property names, in order, without every name that
\* contains one of the sensitive words; empty with no declared properties.
C13_SuggestAllowlist ==
  \A i \in 1..Len(WrittenRules) :
     LET rule == WrittenRules[i]
         tool == ToolOf(rule)
     IN  IF IsSome(tool.allowlist_fields) /\ Get(tool.allowlist_fields) # <<>>
           THEN rule.allowlist = tool.allowlist_fields
           ELSE rule.allowlist =
                  Some(SelectSeq(DeclaredProps(tool), LAMBDA k : k \notin SensitiveDeclaredNames))

\* An explicit list kept with its sensitive name, and an inferred list that
\* keeps title, pass and body out of eleven declared names.
C13_Witness ==
  /\ Suggested
  /\ \E i, j \in 1..Len(WrittenRules) :
        /\ WrittenRules[i].allowlist = Some(<<Names.title, Names.password>>)
        /\ Len(DeclaredProps(ToolOf(WrittenRules[j]))) = 11
        /\ WrittenRules[j].allowlist = Some(<<Names.title, Names.pass, Names.body>>)

\* C14: after policies suggest has run, running it again with the same
\* options on the same stack, lock and catalog writes the very same rule
\* list: the rules already in policies.yaml are replaced, none is added.
C14_SuggestIdempotent ==
  Suggested => SuggestResult(out.args).policies = policies

\* A policies file with rules, written by a run that can be repeated.
C14_Witness ==
  /\ Suggested
  /\ Len(WrittenRules) >= 2
  /\ SuggestResult(out.args).policies = policies

\* C15: every written rule has rateLimit.maxCalls and rateLimit.windowSec
\* that are integers >= 1, whatever was given to --rateLimit and --windowSec.
C15_SuggestRateLimitPositive ==
  \A i \in 1..Len(WrittenRules) :
     LET rateLimit == Get(WrittenRules[i].rateLimit)
     IN  /\ IsSome(rateLimit.maxCalls) /\ Get(rateLimit.maxCalls) >= 1
         /\ IsSome(rateLimit.windowSec) /\ Get(rateLimit.windowSec) >= 1

\* C16: the policies written by policies suggest hold exactly one rule per
\* (pack id, tool name): no two rules share pack and tool, and every tool of
\* every locked pack that has a pack.yaml has a rule.
C16_OneRulePerTool ==
  Suggested
    => /\ \A i, j \in 1..Len(WrittenRules) :
            (WrittenRules[i].pack = WrittenRules[j].pack
               /\ WrittenRules[i].tool = WrittenRules[j].tool) => i = j
       /\ \A k \in 1..Len(Get(lock)) :
            PackMeta(Get(lock)[k]) # None
              => \A t \in 1..Len(Get(PackMeta(Get(lock)[k]))) :
                   \E i \in 1..Len(WrittenRules) :
                      /\ WrittenRules[i].pack = Get(lock)[k]
                      /\ WrittenRules[i].tool = Get(PackMeta(Get(lock)[k]))[t].name

-----------------------------------------------------------------------------
(* C17 *)

\* The verdict a decided process shows: the message it ends with.
ShownVerdict ==
  IF out.report = "issues" THEN "Blocked"
  ELSE IF out.report = "rate" THEN "RateLimited"
  ELSE IF out.report = "confirm" THEN "NeedsConfirmation"
  ELSE IF out.report \in {"allowed", "adapter", "simulated"} THEN "Ok"
  ELSE "none"

\* The manifest's tool has a side-effect tag that asks for confirmation, and
\* the host was not given --assume-yes.
HostConfirmOpen ==
  /\ \E j \in 1..Len(TagsOf(out.args.tool)) : IsKeywordTag(TagsOf(out.args.tool)[j])
  /\ ~out.args.assumeYes

\* What the inputs say of the decided call: it has issues, it waits for a
\* confirmation, it is over the quota (the host has no quota).
InputIssues == out.issues # <<>> \/ L.issues # <<>>
InputConfirmOpen == IF out.cmd = "host-demo" THEN HostConfirmOpen ELSE ConfirmOpen
InputQuotaExceeded == out.cmd # "host-demo" /\ QuotaExceeded

\* C17: in dry-run, exec and the demo host every decided process shows one
\* verdict and ends with the exit code of that verdict: 0 for Ok, 1 for
\* Blocked, non-zero for RateLimited, and 2 for NeedsConfirmation, which
\* differs from Blocked's code.  A call with issues ends Blocked; without
\* issues, a call that only waits for confirmation ends with 2, one that is
\* only over the quota ends non-zero, one that is neither ends with 0.
C17_ExitSignals ==
  (Decided \/ HostDecided)
    => /\ ShownVerdict # "none"
       /\ ShownVerdict = "Ok" => out.exit = 0
       /\ ShownVerdict = "Blocked" => out.exit = 1
       /\ ShownVerdict = "RateLimited" => out.exit # 0
       /\ ShownVerdict = "NeedsConfirmation" => out.exit = 2 /\ out.exit # 1
       /\ InputIssues => ShownVerdict = "Blocked"
       /\ (~InputIssues /\ InputConfirmOpen /\ ~InputQuotaExceeded)
            => ShownVerdict = "NeedsConfirmation"
       /\ (~InputIssues /\ ~InputConfirmOpen /\ InputQuotaExceeded)
            => ShownVerdict = "RateLimited"
       /\ (~InputIssues /\ ~InputConfirmOpen /\ ~InputQuotaExceeded)
            => ShownVerdict = "Ok"

\* The demo host withholds a call whose tool is tagged SEND: exit code 2.
C17_Witness ==
  /\ HostDecided
  /\ out.args.tool.side_effects = Some(<<Tags.SEND>>)
  /\ ShownVerdict = "NeedsConfirmation"
  /\ out.exit = 2

-----------------------------------------------------------------------------
(* C18 *)

\* The same command run once more, with the same options, in the state the
\* process left behind, ends as the process did.
RepeatedRunAgrees ==
  /\ out.cmd = "dry-run" => DryRunOutcome(out.args) = out
  /\ out.cmd = "exec" => ExecOutcome(out.args) = out

\* C18: dry-run and exec leave stack.yaml, stack.lock.json and policies.yaml
\* as they found them (absent files stay absent) and keep no call count:
\* the command repeated with the same inputs, --callsSoFar included, ends
\* with the same verdict.
C18_Stateless ==
  /\ [](RepeatedRunAgrees)
  /\ [][out'.cmd \in {"dry-run", "exec"} => UNCHANGED <<stack, lock, policies>>]_vars

\* An exec call admitted under a rule with a limit of one call; the same
\* call would be admitted again.
C18_Witness ==
  /\ Decided
  /\ out.cmd = "exec"
  /\ L.rule # 0
  /\ ApplicableLimit.maxCalls = 1
  /\ IsOk
  /\ ExecOutcome(out.args) = out

-----------------------------------------------------------------------------
(* C19 *)

\* The violations of the tool's schema in the payload of the decided call,
\* when the schema was loaded: `title` is required, `title` and `extra` are
\* strings.
ExpectedSchemaIssues ==
  IF out.cmd # "host-demo" /\ out.args.schemaFile # "ok" THEN {}
  ELSE LET payload == Get(out.args.payload)
       IN  { <<"schema:", "/", "must have required property", "title">> :
               x \in { k \in {"title"} : \A i \in 1..Len(payload) : payload[i].key # k } }
           \cup
           { <<"schema:", "/", k, "must be", "string">> :
               k \in { q \in {"title", "extra"} :
                         \E i \in 1..Len(payload) :
                            payload[i].key = q /\ payload[i].type # "string" } }

\* C19: when the payload of a decided call violates the schema and also has
\* top-level fields outside a non-empty allowlist, the call ends Blocked and
\* the printed issues are every schema violation and the allowlist issue,
\* and nothing else.
C19_NoShortCircuit ==
  ( /\ (Decided \/ HostDecided)
    /\ ExpectedSchemaIssues # {}
    /\ Len(ApplicableAllowlist) > 0
    /\ Len(KeysOutside) > 0 )
    => /\ ShownVerdict = "Blocked"
       /\ ExpectedSchemaIssues \subseteq SeqToSet(out.issues)
       /\ (<<"allowlist: unexpected fields">> \o KeysOutside) \in SeqToSet(out.issues)
       /\ Len(out.issues) = Cardinality(ExpectedSchemaIssues) + 1

\* Two schema violations (no title, extra not a string) and the allowlist
\* issue, printed together.
C19_Witness ==
  /\ Decided
  /\ Cardinality(ExpectedSchemaIssues) = 2
  /\ Len(KeysOutside) > 0
  /\ Len(out.issues) = 3
  /\ AllowlistIssuePositions = {3}

-----------------------------------------------------------------------------
(* A host that serves concurrent requests for a@1:t.  It keeps one rolling *)
(* counter, hands every decision the counter as --callsSoFar, and counts a *)
(* call only when the decision admits it; decision and increment are one   *)
(* step.  The decision is exec's.                                          *)

\* The rule of the served tool: a limit of 1..MaxLimit calls per window.
HostedRules ==
  [ pack : {A1}, tool : {"t"},
    confirm : { Some([required |-> FALSE, message |-> None]),
                Some([required |-> TRUE,  message |-> Some(<<"Sure?">>)]) },
    allowlist : { Some(<<>>) },
    rateLimit : { Some([maxCalls |-> m, windowSec |-> DefaultWindowSec]) : m \in 1..MaxLimit } ]

\* A request: a payload that passes the schema or one that does not, with
\* or without the user's consent.
HostedArgs ==
  [ packId : {A1}, toolName : {"t"}, schemaFile : {"ok"},
    payload : { Some(<< [key |-> "title", type |-> "string"] >>), Some(<<>>) },
    assumeYes : BOOLEAN, callsSoFar : {Some(0)} ]

HostedInit ==
  /\ stack = Some(LockedPacks)
  /\ lock = Some(LockedPacks)
  /\ policies \in { Some(<<r>>) : r \in HostedRules }
  /\ out = Idle
  /\ host = HostIdle

\* A request arrives at a free slot.
HostReceive(r) ==
  /\ host.pc[r] = "idle"
  /\ \E args \in HostedArgs :
       host' = [host EXCEPT !.pc[r] = "waiting", !.req[r] = args]
  /\ UNCHANGED <<stack, lock, policies, out>>

\* The host asks for the decision with its counter as callsSoFar and, in
\* the same step, counts the call if it is admitted.
HostDecide(r) ==
  /\ host.pc[r] = "waiting"
  /\ LET o == ExecOutcome([host.req[r] EXCEPT !.callsSoFar = Some(host.counter)])
     IN  /\ out' = o
         /\ host' = [host EXCEPT !.pc[r] = "done",
                                  !.counter = IF o.exit = 0 THEN @ + 1 ELSE @,
                                  !.admitted = IF o.exit = 0 THEN @ + 1 ELSE @]
  /\ UNCHANGED <<stack, lock, policies>>

\* The request is answered; its slot is free again.
HostReply(r) ==
  /\ host.pc[r] = "done"
  /\ host' = [host EXCEPT !.pc[r] = "idle", !.req[r] = DefaultArgs]
  /\ UNCHANGED <<stack, lock, policies, out>>

\* The window ends: the counter starts again.
HostWindowEnds ==
  /\ host.counter > 0
  /\ host' = [host EXCEPT !.counter = 0, !.admitted = 0]
  /\ UNCHANGED <<stack, lock, policies, out>>

HostedNext ==
  \/ \E r \in Requests : HostReceive(r) \/ HostDecide(r) \/ HostReply(r)
  \/ HostWindowEnds

HostedSpec == HostedInit /\ [][HostedNext]_vars

-----------------------------------------------------------------------------
(* C20 *)

\* The limit of the rule of the served tool.
HostedLimit == Get(Get(policies)[1].rateLimit).maxCalls

\* C20: a host with one rolling counter for the tool, which hands each
\* decision the counter as it is at the call and counts a call in the same
\* step in which the decision admits it, never admits more than maxCalls
\* calls within one window, however its concurrent requests interleave.
C20_AdmittedWithinLimit == host.admitted <= HostedLimit

\* The limit is used up while another request waits, and the last decision
\* refused a call for the rate limit.
C20_Witness ==
  /\ HostedLimit >= 2
  /\ host.admitted = HostedLimit
  /\ out.report = "rate"
  /\ \E r \in Requests : host.pc[r] = "waiting"

-----------------------------------------------------------------------------
(* C21 *)

\* C21: dry-run orders the same checks in two ways.  For a call with no
\* issues, confirmation required and not granted, and the quota exceeded,
\* the status string of the preview is 'needs-confirmation' (confirmation
\* tested first), while the process prints the rate-limit message and exits
\* 1, not 2 (rate limit tested first).
C21_DryRunTwoOrderings ==
  (Decided /\ out.cmd = "dry-run" /\ NoIssues /\ ConfirmOpen /\ QuotaExceeded)
    => /\ Status = "needs-confirmation"
       /\ out.report = "rate"
       /\ out.rate = <<CallsSoFar + 1, ApplicableLimit.maxCalls, ApplicableLimit.windowSec>>
       /\ out.exit = 1

\* A dry-run of a call that waits for confirmation at a used-up limit of
\* one call.
C21_Witness ==
  /\ Decided
  /\ out.cmd = "dry-run"
  /\ NoIssues /\ ConfirmOpen /\ QuotaExceeded
  /\ ApplicableLimit.maxCalls = 1
  /\ Status = "needs-confirmation"
  /\ out.exit = 1

-----------------------------------------------------------------------------
(* C22 *)

\* What the other of the two commands does with the inputs of the process
\* that ran, on the same files.
OtherCommand ==
  IF out.cmd = "dry-run" THEN ExecOutcome(out.args) ELSE DryRunOutcome(out.args)

\* C22: for every schema, payload, policies file, --assume-yes and
\* --callsSoFar, dry-run and exec end with the same exit code, the same
\* issues and the same message, and exec reaches its mock execution exactly
\* when dry-run reports that the call would be allowed.
C22_ExecAsDryRun ==
  out.cmd \in {"dry-run", "exec"}
    => LET other == OtherCommand
           asExec == IF out.cmd = "exec" THEN out ELSE other
           asDryRun == IF out.cmd = "dry-run" THEN out ELSE other
       IN  /\ other.exit = out.exit
           /\ other.stderr = out.stderr
           /\ other.issues = out.issues
           /\ other.rate = out.rate
           /\ other.confirm = out.confirm
           /\ other.locals = out.locals
           /\ asExec.report \in {"adapter", "simulated"} <=> asDryRun.report = "allowed"

\* A dry-run that allows a call under the rule of another version of the
\* pack; exec runs the call.
C22_Witness ==
  /\ Decided
  /\ out.cmd = "dry-run"
  /\ L.rule # 0
  /\ UsedRule.pack # out.args.packId
  /\ out.report = "allowed"
  /\ OtherCommand.report \in {"adapter", "simulated"}
  /\ OtherCommand.exit = 0

-----------------------------------------------------------------------------
(* C23 *)

\* exec printed the result of a mock adapter, or the simulated result of a
\* tool without adapter.
ExecRan == out.cmd = "exec" /\ out.report \in {"adapter", "simulated"}

\* C23: exec reaches the mock adapter or the 'no adapter' result only for a
\* call that is fully admitted: the payload has no schema issue and no
\* top-level key outside the applicable allowlist, callsSoFar + 1 does not
\* exceed maxCalls, and confirmation is not required or --assume-yes is
\* given.
C23_ExecOnlyWhenAdmitted ==
  ExecRan
    => /\ Decided
       /\ ValidationIssues(out.args.schemaFile, Get(out.args.payload)) = <<>>
       /\ Len(ApplicableAllowlist) > 0 => KeysOutside = <<>>
       /\ out.issues = <<>>
       /\ CallsSoFar + 1 <= ApplicableLimit.maxCalls
       /\ ConfirmRequired => out.args.assumeYes
       /\ out.exit = 0

\* The simulated result of a tool without adapter: the last call the limit
\* allows, confirmation required and granted.
C23_Witness ==
  /\ ExecRan
  /\ out.report = "simulated"
  /\ L.rule # 0
  /\ ConfirmRequired /\ out.args.assumeYes
  /\ ApplicableLimit.maxCalls >= 1
  /\ CallsSoFar + 1 = ApplicableLimit.maxCalls

-----------------------------------------------------------------------------
(* Pack ids with more than one '@': scoped names.  "@s/p@1" is the tokens  *)
(* '@', 's/p', '@', '1'.                                                   *)

ScopedIds ==
  [ p1 |-> <<"@", "s/p", "@", "1">>,
    p2 |-> <<"@", "s/p", "@", "2">>,
    q1 |-> <<"@", "s/q", "@", "1">> ]

\* The lockfile: two scoped packs and a@1.
ScopedLock == <<ScopedIds.p1, ScopedIds.q1, A1>>

\* Rules for tool "t" of the scoped packs and of a@2, b@1.
ScopedRules ==
  [ pack : {ScopedIds.p1, ScopedIds.p2, ScopedIds.q1, A2, B1}, tool : {"t"},
    confirm : { Some([required |-> FALSE, message |-> None]),
                Some([required |-> TRUE,  message |-> Some(<<"Sure?">>)]) },
    allowlist : { Some(<<>>) },
    rateLimit : { Some([maxCalls |-> 1, windowSec |-> DefaultWindowSec]) } ]

ScopedArgs ==
  [ packId : SeqToSet(ScopedLock), toolName : {"t"}, schemaFile : {"ok"},
    payload : { Some(<< [key |-> "title", type |-> "string"] >>), Some(<<>>) },
    assumeYes : BOOLEAN, callsSoFar : {Some(0)} ]

ScopedInit ==
  /\ stack = Some(ScopedLock)
  /\ lock = Some(ScopedLock)
  /\ policies \in { Some(rs) : rs \in SeqsUpTo(ScopedRules, MaxRules) }
  /\ out = Idle
  /\ host = HostIdle

\* ap dry-run --tool <@scope/name@version:toolName> ...
DryRunScoped ==
  /\ out.cmd = "none"
  /\ \E args \in ScopedArgs : out' = DryRunOutcome(args)
  /\ UNCHANGED <<stack, lock, policies, host>>

\* ap exec --tool <@scope/name@version:toolName> ...
ExecScoped ==
  /\ out.cmd = "none"
  /\ \E args \in ScopedArgs : out' = ExecOutcome(args)
  /\ UNCHANGED <<stack, lock, policies, host>>

ScopedNext == DryRunScoped \/ ExecScoped \/ NextCommand

ScopedSpec == ScopedInit /\ [][ScopedNext]_vars

-----------------------------------------------------------------------------
(* C24 *)

\* C24: the fallback match only selects a rule of the same pack name at
\* another version: a rule that is used without being of the requested pack
\* id is of a pack with the requested pack's name (parsePackId) and of the
\* requested tool, for every pack id the CLI accepts, scoped ids included.
C24_FallbackSameName ==
  (Decided /\ L.rule # 0 /\ UsedRule.pack # out.args.packId)
    => /\ PackName(UsedRule.pack) = PackName(out.args.packId)
       /\ UsedRule.tool = out.args.toolName

-----------------------------------------------------------------------------
(* remove, and the commands that write stack.yaml and stack.lock.json with *)
(* the catalog in place and pack ids that its index lists.                 *)

\* remove: any listed pack id, and one that was never added.
RemoveArgs == [ packId : PackIds \cup {Unlisted} ]

\* A remove that takes the pack out of the lockfile only.
RemoveResult_LockOnly(args) ==
  IF stack = None
    THEN [stack |-> stack, lock |-> lock, out |-> Fail("remove", args, "No stack")]
  ELSE [ stack |-> stack,
         lock  |-> IF IsSome(lock)
                     THEN Some(SelectSeq(Get(lock), LAMBDA p : p # args.packId))
                     ELSE lock,
         out   |-> Done("remove", args, FALSE) ]

\* A remove that takes out every version of the pack.
RemoveResult_EveryVersion(args) ==
  IF stack = None
    THEN [stack |-> stack, lock |-> lock, out |-> Fail("remove", args, "No stack")]
  ELSE [ stack |-> Some(SelectSeq(Get(stack),
                                  LAMBDA p : PackName(p) # PackName(args.packId))),
         lock  |-> IF IsSome(lock)
                     THEN Some(SelectSeq(Get(lock),
                                         LAMBDA p : PackName(p) # PackName(args.packId)))
                     ELSE lock,
         out   |-> Done("remove", args, FALSE) ]

\* ap remove <packId>: the files and the outcome after the command.  Both
\* lists lose every entry with this id; a missing lockfile stays missing.
RemoveResult(args) ==
  IF stack = None
    THEN [stack |-> stack, lock |-> lock, out |-> Fail("remove", args, "No stack")]
  ELSE [ stack |-> Some(SelectSeq(Get(stack), LAMBDA p : p # args.packId)),
         lock  |-> IF IsSome(lock)
                     THEN Some(SelectSeq(Get(lock), LAMBDA p : p # args.packId))
                     ELSE lock,
         out   |-> Done("remove", args, FALSE) ]

Remove ==
  \E args \in RemoveArgs :
    LET r == RemoveResult(args)
    IN  /\ stack' = r.stack
        /\ lock' = r.lock
        /\ out' = r.out
        /\ UNCHANGED <<policies, host>>

\* add and bump of listed ids with the catalog in place (bump also without
\* a version).
ListedAddArgs == [ packId : PackIds, catalog : {"ok"} ]
ListedBumpArgs == [ packId : {A1, A2, B1, <<"a">>}, catalog : {"ok"} ]

AddListed ==
  \E args \in ListedAddArgs :
    LET r == AddResult(args)
    IN  /\ stack' = r.stack
        /\ lock' = r.lock
        /\ out' = r.out
        /\ UNCHANGED <<policies, host>>

BumpListed ==
  \E args \in ListedBumpArgs :
    LET r == BumpResult(args)
    IN  /\ stack' = r.stack
        /\ lock' = r.lock
        /\ out' = r.out
        /\ UNCHANGED <<policies, host>>

StackNext == InitStack \/ AddListed \/ BumpListed \/ Remove

StackSpec == SuggestInit /\ [][StackNext]_vars

-----------------------------------------------------------------------------
(* C25..C28: stack.yaml and stack.lock.json under add, remove and bump *)

\* lint's error "is in stack.yaml but not in stack.lock.json" does not arise.
StackPacksLocked ==
  \A i \in 1..Len(Get(stack)) : Contains(LockEntries(lock), Get(stack)[i])

\* C25: from an empty directory, through init and any add, remove and bump
\* of listed packs with the catalog in place, every pack id in stack.yaml has
\* an entry with the same id in stack.lock.json.  The commands that fail here
\* leave both files as they were, so every state is reached through
\* commands that completed.
C25_StackLockConsistent ==
  /\ [](IsSome(stack) => StackPacksLocked)
  /\ [][out'.exit # 0 => UNCHANGED <<stack, lock>>]_vars

C25_Witness ==
  /\ out.cmd = "bump"
  /\ out.exit = 0
  /\ Len(Get(stack)) >= 2
  /\ StackPacksLocked

\* C26: an add or a bump that ends with an error because the catalog is
\* missing or the id is not in its index leaves stack.yaml and
\* stack.lock.json as they were.
C26_FailingChangesNothing ==
  [][(/\ out'.cmd \in {"add", "bump"}
      /\ out'.exit # 0
      /\ out'.stderr \in {"No catalog found", "Pack not found in catalog index",
                          "Version not found in catalog index"})
       => UNCHANGED <<stack, lock>>]_vars

\* C27: no pack id is twice in stack.yaml's packs list.
C27_NoDuplicateIds ==
  IsSome(stack) =>
    \A i, j \in 1..Len(Get(stack)) : i # j => Get(stack)[i] # Get(stack)[j]

\* C28: a completed add of a listed id that neither list holds, followed by
\* remove of the same id, gives back both packs lists as they were before
\* the add, in the same order.
C28_AddRemoveRoundTrip ==
  [][\A id \in PackIds :
       (/\ IsSome(stack)
        /\ ~Contains(Get(stack), id)
        /\ ~Contains(LockEntries(lock), id)
        /\ out'.cmd = "add"
        /\ out'.exit = 0
        /\ out'.args.packId = id)
         => /\ RemoveResult([packId |-> id])'.out.exit = 0
            /\ RemoveResult([packId |-> id])'.stack = stack
            /\ LockEntries(RemoveResult([packId |-> id])'.lock) = LockEntries(lock)]_vars

\* a@2 has just been added next to a@1 and is the last entry of both lists.
C28_Witness ==
  /\ out.cmd = "add"
  /\ out.exit = 0
  /\ out.args.packId = A2
  /\ stack = Some(<<A1, A2>>)
  /\ lock = Some(<<A1, A2>>)

====
